---------------------------- MODULE Spec2Model ----------------------------
(***************************************************************************)
(* ReinforcementEC2_2023: the Eurocode 2 (2023) reinforcement material of  *)
(* structuralcodes/materials/reinforcement/_reinforcementEC2_2023.py.      *)
(*                                                                         *)
(* Numbers are exact rationals <<n, d>> with d > 0 in lowest terms.  An    *)
(* Optional argument is a sequence of length 0 (None) or 1.  A text is a   *)
(* sequence of one-character strings, so that formatting is computed.      *)
(* The object's attributes are a function from attribute names to values,  *)
(* as in the instance dictionary; an exception is a non-empty name.        *)
(***************************************************************************)
EXTENDS Integers, Sequences, FiniteSets, TLC

VARIABLES
    pc,      \* position inside __init__: "new", "stored", "resolved", "done", "raised"
    args,    \* the arguments __init__ was called with
    self,    \* the instance dictionary of the object under construction
    err,     \* the exception that left __init__ ("" while there is none)
    handle,  \* what the constructor expression gave its caller
    log,     \* the collaborator calls made by __init__, in order
    ret,     \* the result of the last method call on the constructed object
    ncalls   \* how many method calls have been made on it

vars == <<pc, args, self, err, handle, log, ret, ncalls>>

\* How many method calls on the constructed object a behaviour follows.
MaxCalls == 3

-----------------------------------------------------------------------------
(* Exact arithmetic for the float expressions of the source.               *)

Abs(i) == IF i < 0 THEN -i ELSE i

RECURSIVE GCD(_, _)
GCD(a, b) == IF b = 0 THEN a ELSE GCD(b, a % b)

Norm(n, d) ==
    LET s == IF d < 0 THEN -1 ELSE 1
        g == GCD(Abs(n), Abs(d))
    IN  <<(s * n) \div g, (s * d) \div g>>

RSub(a, b) ==
    LET g == GCD(a[2], b[2])
    IN  Norm(a[1] * (b[2] \div g) - b[1] * (a[2] \div g), (a[2] \div g) * b[2])

\* a * b, cancelling crosswise before multiplying.
RMul(a, b) ==
    LET g1 == GCD(Abs(a[1]), b[2])
        g2 == GCD(Abs(b[1]), a[2])
    IN  Norm((a[1] \div g1) * (b[1] \div g2), (a[2] \div g2) * (b[2] \div g1))

\* a / b for b # 0.
RDiv(a, b) == RMul(a, Norm(b[2], b[1]))

IsZero(a) == a[1] = 0

-----------------------------------------------------------------------------
(* Optional values.                                                         *)

None == <<>>
Some(v) == <<v>>
IsNone(o) == o = <<>>

-----------------------------------------------------------------------------
(* round(x) of a float and the format specification ":d" of an int.        *)

\* Python 3 round(): to the nearest integer, a tie to the even one.
PyRound(x) ==
    LET f == x[1] \div x[2]
        r == x[1] - f * x[2]
    IN  IF 2 * r < x[2] THEN f
        ELSE IF 2 * r > x[2] THEN f + 1
        ELSE IF f % 2 = 0 THEN f ELSE f + 1

DigitChars == <<"0", "1", "2", "3", "4", "5", "6", "7", "8", "9">>

RECURSIVE NatToText(_)
NatToText(n) ==
    IF n < 10 THEN <<DigitChars[n + 1]>>
    ELSE NatToText(n \div 10) \o <<DigitChars[(n % 10) + 1]>>

FormatD(i) == IF i < 0 THEN <<"-">> \o NatToText(-i) ELSE NatToText(i)

ReinforcementText ==
    <<"R", "e", "i", "n", "f", "o", "r", "c", "e", "m", "e", "n", "t">>

\* As AutoName, with int(fyk) in place of round(fyk).
AutoName_Truncating(fyk) == ReinforcementText \o FormatD(fyk[1] \div fyk[2])

\* f'Reinforcement{round(fyk):d}'
AutoName(fyk) == ReinforcementText \o FormatD(PyRound(fyk))

-----------------------------------------------------------------------------
(* The collaborators the class is built on: the base class Reinforcement,  *)
(* the rule functions of structuralcodes.codes.ec2_2023 and the factory    *)
(* create_constitutive_law.                                                 *)

\* Reinforcement.__init__: the characteristic properties, stored as given.
ReinforcementInit(fyk_, Es_, name_, density_, ftk_, epsuk_, gamma_s_) ==
    [a \in {"_fyk", "_Es", "_ftk", "_epsuk", "_gamma_s", "_name", "_density"} |->
        CASE a = "_fyk" -> fyk_
          [] a = "_Es" -> Es_
          [] a = "_ftk" -> ftk_
          [] a = "_epsuk" -> epsuk_
          [] a = "_gamma_s" -> gamma_s_
          [] a = "_name" -> name_
          [] a = "_density" -> density_]

\* The read-only properties of the base class.
fyk(s) == s["_fyk"]
Es(s) == s["_Es"]
ftk(s) == s["_ftk"]
epsuk(s) == s["_epsuk"]

\* A rule function's call: which rule, on what, and what it returned.
ec2_2023_fyd(x, g) == [fn |-> "ec2_2023.fyd", x |-> x, g |-> g, val |-> RDiv(x, g)]
ec2_2023_eps_ud(x, g) == [fn |-> "ec2_2023.eps_ud", x |-> x, g |-> g, val |-> RDiv(x, g)]

NoRule == [fn |-> "", x |-> <<0, 1>>, g |-> <<0, 1>>, val |-> <<0, 1>>]

KnownLaws == {"elastic", "elasticperfectlyplastic", "elasticplastic"}

ErrUnknownLaw == "ValueError: Unknown constitutive law"
ErrNotValid == "ValueError: The provided constitutive law is not valid for reinforcement."
ZeroDivisionError == "ZeroDivisionError: float division by zero"

NoLaw == [id |-> "", kind |-> "", materials |-> {}, kwargs |-> <<>>]

-----------------------------------------------------------------------------
(* The methods of ReinforcementEC2_2023, on the instance dictionary s.     *)

DefaultGammaS == <<23, 20>>    \* 1.15

\* bool(x) of an Optional[float]: None and 0.0 are false.
Truthy(o) == ~IsNone(o) /\ ~IsZero(o[1])

\* self._gamma_s or 1.15
gamma_s(s) == IF Truthy(s["_gamma_s"]) THEN s["_gamma_s"][1] ELSE DefaultGammaS

fyd(s) == ec2_2023_fyd(fyk(s), gamma_s(s))

\* As ftd, with the yield strength in place of the ultimate strength.
ftd_FromYield(s) == ec2_2023_fyd(fyk(s), gamma_s(s))

ftd(s) == ec2_2023_fyd(ftk(s), gamma_s(s))

epsud(s) == ec2_2023_eps_ud(epsuk(s), gamma_s(s))

\* The design yield strain of the base class: fyd / Es.
epsyd(s) == RDiv(fyd(s).val, Es(s))

Returned(d) == [exc |-> "", val |-> d]
Raised(e) == [exc |-> e, val |-> <<>>]

__elastic__(s) == Returned("E" :> Es(s))

__elasticperfectlyplastic__(s) ==
    Returned("E" :> Es(s) @@ "fy" :> fyd(s).val @@ "eps_su" :> epsud(s).val)

\* As __elasticplastic__, dividing as IEEE 754 does: a zero divisor gives inf.
elasticplastic_InfOnZero(s) ==
    LET num == RSub(ftd(s).val, fyd(s).val)
        den == RSub(epsud(s).val, epsyd(s))
    IN  Returned("E" :> Es(s) @@ "fy" :> fyd(s).val
                 @@ "Eh" :> (IF IsZero(den) THEN <<1, 0>> ELSE RDiv(num, den))
                 @@ "eps_su" :> epsud(s).val)

\* As __elasticplastic__, with the hardening branch measured from zero strain.
elasticplastic_NoYieldStrain(s) ==
    LET num == RSub(ftd(s).val, fyd(s).val)
        den == epsud(s).val
    IN  IF IsZero(den) THEN Raised(ZeroDivisionError)
        ELSE Returned("E" :> Es(s) @@ "fy" :> fyd(s).val
                      @@ "Eh" :> RDiv(num, den) @@ "eps_su" :> epsud(s).val)

\* A float division by zero raises ZeroDivisionError.
__elasticplastic__(s) ==
    LET num == RSub(ftd(s).val, fyd(s).val)
        den == RSub(epsud(s).val, epsyd(s))
    IN  IF IsZero(den) THEN Raised(ZeroDivisionError)
        ELSE Returned("E" :> Es(s) @@ "fy" :> fyd(s).val
                      @@ "Eh" :> RDiv(num, den) @@ "eps_su" :> epsud(s).val)

\* getattr(material, f'__{name}__')()
Supply(name, s) ==
    CASE name = "elastic" -> __elastic__(s)
      [] name = "elasticperfectlyplastic" -> __elasticperfectlyplastic__(s)
      [] name = "elasticplastic" -> __elasticplastic__(s)

\* create_constitutive_law(constitutive_law_name=name, material=s); the law it
\* builds carries the marker mats of its class.
create_constitutive_law(name, s, mats) ==
    IF name \notin KnownLaws THEN [exc |-> ErrUnknownLaw, law |-> NoLaw, asked |-> <<>>]
    ELSE LET kw == Supply(name, s)
         IN  IF kw.exc # ""
             THEN [exc |-> kw.exc, law |-> NoLaw, asked |-> <<name>>]
             ELSE [exc |-> "",
                   law |-> [id |-> "built", kind |-> name, materials |-> mats,
                            kwargs |-> kw.val],
                   asked |-> <<name>>]

-----------------------------------------------------------------------------
(* The arguments a caller may construct with.                               *)

DefaultDensity == 7850

FykValues == {<<500, 1>>, <<2502, 5>>, <<1001, 2>>, <<2503, 5>>}  \* 500, 500.4, 500.5, 500.6
EsValues == {<<200000, 1>>}
FtkValues == {<<575, 1>>, <<600, 1>>}
EpsukValues == {<<3, 40>>, <<1, 400>>}                            \* 0.075, 0.0025
GammaValues == {None, Some(<<0, 1>>), Some(<<-1, 1>>), Some(<<1, 1>>), Some(<<23, 20>>)}
NameValues == {None, Some(<<"B", "5", "0", "0", "B">>)}
DensityValues == {DefaultDensity, 7800}

Markers == {{"steel", "rebars"}, {"concrete"}, {"concrete", "steel", "rebars"}}

\* Laws built by the caller beforehand.
LawInstances ==
    {[id |-> "given", kind |-> "userdefined", materials |-> m, kwargs |-> <<>>] : m \in Markers}

LawArguments ==
    {[isinstance |-> FALSE, name |-> n, law |-> NoLaw] : n \in KnownLaws \cup {"bogus"}}
    \cup {[isinstance |-> TRUE, name |-> "", law |-> l] : l \in LawInstances}

Arguments ==
    [fyk : FykValues, Es : EsValues, ftk : FtkValues, epsuk : EpsukValues,
     gamma_s : GammaValues, name : NameValues, density : DensityValues,
     constitutive_law : LawArguments]

NoRet == [op |-> "", exc |-> "", val |-> <<>>, rule |-> NoRule]

Event(e, a) == [ev |-> e, arg |-> a]

-----------------------------------------------------------------------------
(* ReinforcementEC2_2023.__init__, step by step: the factory calls back    *)
(* into the object while it is being constructed.                           *)

Init ==
    /\ pc = "new"
    /\ args \in Arguments
    /\ self = <<>>
    /\ err = ""
    /\ handle = "none"
    /\ log = <<>>
    /\ ret = NoRet
    /\ ncalls = 0

\* The name synthesised when none is given, then super().__init__(...).
InitStore ==
    /\ pc = "new"
    /\ LET name == IF IsNone(args.name) THEN AutoName(args.fyk) ELSE args.name[1]
       IN  self' = ReinforcementInit(args.fyk, args.Es, name, args.density,
                                     args.ftk, args.epsuk, args.gamma_s)
    /\ log' = Append(log, Event("Reinforcement.__init__", ""))
    /\ pc' = "stored"
    /\ UNCHANGED <<args, err, handle, ret, ncalls>>

\* As ResolveLaw, with the factory's exception caught and replaced.
ResolveLaw_Wrapping ==
    /\ pc = "stored"
    /\ IF args.constitutive_law.isinstance
       THEN /\ self' = self @@ ("_constitutive_law" :> args.constitutive_law.law)
            /\ log' = log
            /\ pc' = "resolved"
            /\ err' = err
       ELSE \E mats \in Markers :
              LET name == args.constitutive_law.name
                  r == create_constitutive_law(name, self, mats)
                  made == log \o <<Event("create_constitutive_law", name)>>
                              \o [i \in 1..Len(r.asked) |-> Event("supply", r.asked[i])]
              IN  IF r.exc # ""
                  THEN /\ self' = self
                       /\ log' = made
                       /\ pc' = "raised"
                       /\ err' = ErrNotValid
                  ELSE /\ self' = self @@ ("_constitutive_law" :> r.law)
                       /\ log' = made
                       /\ pc' = "resolved"
                       /\ err' = err
    /\ UNCHANGED <<args, handle, ret, ncalls>>

\* As ResolveLaw, asking the factory whatever the argument is.
ResolveLaw_AlwaysFactory ==
    /\ pc = "stored"
    /\ \E mats \in Markers :
         LET name == IF args.constitutive_law.isinstance
                     THEN args.constitutive_law.law.kind
                     ELSE args.constitutive_law.name
             r == create_constitutive_law(name, self, mats)
             made == log \o <<Event("create_constitutive_law", name)>>
                         \o [i \in 1..Len(r.asked) |-> Event("supply", r.asked[i])]
         IN  IF r.exc # ""
             THEN /\ self' = self
                  /\ log' = made
                  /\ pc' = "raised"
                  /\ err' = r.exc
             ELSE /\ self' = self @@ ("_constitutive_law" :> r.law)
                  /\ log' = made
                  /\ pc' = "resolved"
                  /\ err' = err
    /\ UNCHANGED <<args, handle, ret, ncalls>>

\* self._constitutive_law = constitutive_law if isinstance(...) else create_constitutive_law(...)
ResolveLaw ==
    /\ pc = "stored"
    /\ IF args.constitutive_law.isinstance
       THEN /\ self' = self @@ ("_constitutive_law" :> args.constitutive_law.law)
            /\ log' = log
            /\ pc' = "resolved"
            /\ err' = err
       ELSE \E mats \in Markers :
              LET name == args.constitutive_law.name
                  r == create_constitutive_law(name, self, mats)
                  made == log \o <<Event("create_constitutive_law", name)>>
                              \o [i \in 1..Len(r.asked) |-> Event("supply", r.asked[i])]
              IN  IF r.exc # ""
                  THEN /\ self' = self
                       /\ log' = made
                       /\ pc' = "raised"
                       /\ err' = r.exc
                  ELSE /\ self' = self @@ ("_constitutive_law" :> r.law)
                       /\ log' = made
                       /\ pc' = "resolved"
                       /\ err' = err
    /\ UNCHANGED <<args, handle, ret, ncalls>>

\* As CheckSteel, without the test of the marker.
CheckSteel_Unchecked ==
    /\ pc = "resolved"
    /\ log' = Append(log, Event("steel-check", ""))
    /\ pc' = "done"
    /\ err' = err
    /\ handle' = "descriptor"
    /\ UNCHANGED <<args, self, ret, ncalls>>

\* if 'steel' not in self._constitutive_law.__materials__: raise ValueError(...)
CheckSteel ==
    /\ pc = "resolved"
    /\ log' = Append(log, Event("steel-check", ""))
    /\ IF "steel" \notin self["_constitutive_law"].materials
       THEN /\ pc' = "raised"
            /\ err' = ErrNotValid
            /\ handle' = handle
       ELSE /\ pc' = "done"
            /\ err' = err
            /\ handle' = "descriptor"
    /\ UNCHANGED <<args, self, ret, ncalls>>

-----------------------------------------------------------------------------
(* Method calls on the constructed object.                                  *)

CanCall == pc = "done" /\ handle = "descriptor" /\ ncalls < MaxCalls

RuleResult(op, r) == [op |-> op, exc |-> "", val |-> ("value" :> r.val), rule |-> r]
DictResult(op, r) == [op |-> op, exc |-> r.exc, val |-> r.val, rule |-> NoRule]

Call_fyd ==
    /\ CanCall
    /\ ret' = RuleResult("fyd", fyd(self))
    /\ ncalls' = ncalls + 1
    /\ UNCHANGED <<pc, args, self, err, handle, log>>

Call_ftd ==
    /\ CanCall
    /\ ret' = RuleResult("ftd", ftd(self))
    /\ ncalls' = ncalls + 1
    /\ UNCHANGED <<pc, args, self, err, handle, log>>

Call_epsud ==
    /\ CanCall
    /\ ret' = RuleResult("epsud", epsud(self))
    /\ ncalls' = ncalls + 1
    /\ UNCHANGED <<pc, args, self, err, handle, log>>

\* As Get_gamma_s, keeping the resolved factor in the object.
Get_gamma_s_Caching ==
    /\ CanCall
    /\ ret' = [op |-> "gamma_s", exc |-> "", val |-> ("value" :> gamma_s(self)),
               rule |-> NoRule]
    /\ self' = [self EXCEPT !["_gamma_s"] = Some(gamma_s(self))]
    /\ ncalls' = ncalls + 1
    /\ UNCHANGED <<pc, args, err, handle, log>>

Get_gamma_s ==
    /\ CanCall
    /\ ret' = [op |-> "gamma_s", exc |-> "", val |-> ("value" :> gamma_s(self)),
               rule |-> NoRule]
    /\ ncalls' = ncalls + 1
    /\ UNCHANGED <<pc, args, self, err, handle, log>>

Call_elastic ==
    /\ CanCall
    /\ ret' = DictResult("__elastic__", __elastic__(self))
    /\ ncalls' = ncalls + 1
    /\ UNCHANGED <<pc, args, self, err, handle, log>>

Call_elasticperfectlyplastic ==
    /\ CanCall
    /\ ret' = DictResult("__elasticperfectlyplastic__", __elasticperfectlyplastic__(self))
    /\ ncalls' = ncalls + 1
    /\ UNCHANGED <<pc, args, self, err, handle, log>>

Call_elasticplastic ==
    /\ CanCall
    /\ ret' = DictResult("__elasticplastic__", __elasticplastic__(self))
    /\ ncalls' = ncalls + 1
    /\ UNCHANGED <<pc, args, self, err, handle, log>>

Next ==
    \/ InitStore
    \/ ResolveLaw
    \/ CheckSteel
    \/ Call_fyd
    \/ Call_ftd
    \/ Call_epsud
    \/ Get_gamma_s
    \/ Call_elastic
    \/ Call_elasticperfectlyplastic
    \/ Call_elasticplastic

Spec == Init /\ [][Next]_vars

-----------------------------------------------------------------------------
(* Auxiliary definitions of the properties below.                           *)

Constructed == pc = "done" /\ handle = "descriptor"

\* The partial factor a caller expects: the default for no or a zero override.
ExpectedGammaS ==
    IF args.gamma_s \in {None, Some(<<0, 1>>)} THEN <<23, 20>> ELSE args.gamma_s[1]

IsFinitePositive(r) == r[1] > 0 /\ r[2] > 0

DigitValue(c) == CHOOSE k \in 0..9 : DigitChars[k + 1] = c

RECURSIVE TextToNat(_)
TextToNat(t) ==
    IF Len(t) = 0 THEN 0
    ELSE 10 * TextToNat(SubSeq(t, 1, Len(t) - 1)) + DigitValue(t[Len(t)])

IsDigits(t) ==
    /\ Len(t) > 0
    /\ \A i \in 1..Len(t) : \E k \in 1..10 : DigitChars[k] = t[i]
    /\ (Len(t) > 1 => t[1] # "0")

EventsNamed(e) == {i \in 1..Len(log) : log[i].ev = e}

Degenerate == Constructed /\ epsud(self).val = epsyd(self)

-----------------------------------------------------------------------------
\* C1: the gamma_s accessor returns exactly 1.15 when no override was given
\* and, for every override given at construction, that override unchanged.
C1_OverrideUnchanged ==
    ret.op = "gamma_s" =>
        ret.val["value"] = IF IsNone(args.gamma_s) THEN <<23, 20>> ELSE args.gamma_s[1]

\* C2: a pre-built law whose __materials__ lacks 'steel' makes construction
\* fail with the 'not valid for reinforcement' ValueError and no descriptor
\* reaches the caller; every descriptor that was constructed holds a law whose
\* __materials__ contains 'steel', supplied or built by the factory.
C2_SteelLawOnly ==
    /\ (handle = "descriptor" \/ pc = "done") =>
            /\ Constructed
            /\ "steel" \in self["_constitutive_law"].materials
    /\ (args.constitutive_law.isinstance
          /\ "steel" \notin args.constitutive_law.law.materials) =>
            /\ handle = "none"
            /\ pc # "done"
            /\ pc = "raised" => err = ErrNotValid

C2_Witness ==
    /\ pc = "raised"
    /\ args.constitutive_law.isinstance
    /\ args.constitutive_law.law.materials = {"concrete"}
    /\ err = ErrNotValid
    /\ handle = "none"

\* C3: a constitutive_law argument that is neither a law instance nor one of
\* the three recognised names makes construction fail with the factory's
\* error, unchanged, and no descriptor is created.
C3_UnknownLawPropagates ==
    (~args.constitutive_law.isinstance /\ args.constitutive_law.name \notin KnownLaws) =>
        /\ pc \in {"new", "stored", "raised"}
        /\ pc = "raised" => err = ErrUnknownLaw
        /\ handle = "none"
        /\ "_constitutive_law" \notin DOMAIN self
        /\ EventsNamed("steel-check") = {}

C3_Witness ==
    /\ pc = "raised"
    /\ args.constitutive_law.name = "bogus"
    /\ err = ErrUnknownLaw
    /\ handle = "none"

\* C4: fyd() is the rule ec2_2023.fyd applied to (fyk, gamma_s), ftd() the
\* same rule applied to (ftk, gamma_s), epsud() the rule ec2_2023.eps_ud
\* applied to (epsuk, gamma_s), each returned as the rule gave it.
C4_DirectDelegation ==
    /\ ret.op = "fyd" =>
            /\ ret.rule = ec2_2023_fyd(args.fyk, ExpectedGammaS)
            /\ ret.val["value"] = ret.rule.val
            /\ RMul(ret.val["value"], ExpectedGammaS) = args.fyk
    /\ ret.op = "ftd" =>
            /\ ret.rule = ec2_2023_fyd(args.ftk, ExpectedGammaS)
            /\ ret.val["value"] = ret.rule.val
            /\ RMul(ret.val["value"], ExpectedGammaS) = args.ftk
    /\ ret.op = "epsud" =>
            /\ ret.rule = ec2_2023_eps_ud(args.epsuk, ExpectedGammaS)
            /\ ret.val["value"] = ret.rule.val
            /\ RMul(ret.val["value"], ExpectedGammaS) = args.epsuk

C4_Witness ==
    /\ ret.op = "ftd"
    /\ args.ftk = <<575, 1>>
    /\ args.gamma_s = Some(<<23, 20>>)
    /\ ret.val["value"] = <<500, 1>>

\* C5: the resolved gamma_s of a constructed descriptor is always a positive
\* finite number, for every gamma_s argument the constructor accepts.
C5_GammaSPositive ==
    ret.op = "gamma_s" => IsFinitePositive(ret.val["value"])

\* C6: a call of fyd(), ftd(), epsud(), the gamma_s accessor or a
\* parameter-supply method changes no stored attribute, and a call repeated
\* on the unchanged object returns what it returned before.
C6_CallsChangeNothing ==
    [][ncalls' # ncalls =>
          /\ self' = self
          /\ args' = args
          /\ pc' = pc /\ handle' = handle
          /\ (ret'.op = ret.op => ret' = ret)]_vars

C6_Witness ==
    /\ ncalls >= 2
    /\ ret.op = "gamma_s"
    /\ IsNone(self["_gamma_s"])

\* C7: with no name given, the name is 'Reinforcement' directly followed by
\* the decimal digits of fyk rounded to an integer (500.4 gives
\* 'Reinforcement500'); a name that is given is stored unchanged.
C7_NameSynthesis ==
    pc # "new" =>
        IF IsNone(args.name)
        THEN LET nm == self["_name"]
                 k == Len(ReinforcementText)
                 digits == SubSeq(nm, k + 1, Len(nm))
                 n == TextToNat(digits)
             IN  /\ Len(nm) > k
                 /\ SubSeq(nm, 1, k) = ReinforcementText
                 /\ IsDigits(digits)
                 /\ 2 * Abs(args.fyk[1] - n * args.fyk[2]) <= args.fyk[2]
                 /\ (args.fyk = <<2502, 5>> =>
                        nm = ReinforcementText \o <<"5", "0", "0">>)
        ELSE self["_name"] = args.name[1]

C7_Witness ==
    /\ Constructed
    /\ IsNone(args.name)
    /\ args.fyk = <<2502, 5>>
    /\ self["_name"] = ReinforcementText \o <<"5", "0", "0">>

\* C8: when the design ultimate strain equals the design yield strain,
\* __elasticplastic__ raises an error and returns no parameter set; no
\* parameter set it returns holds an infinite or NaN hardening modulus.
C8_DegenerateHardeningRaises ==
    ret.op = "__elasticplastic__" =>
        /\ Degenerate => (ret.exc = ZeroDivisionError /\ ret.val = <<>>)
        /\ "Eh" \in DOMAIN ret.val => ret.val["Eh"][2] > 0

C8_Witness ==
    /\ ret.op = "__elasticplastic__"
    /\ Degenerate
    /\ ret.exc = ZeroDivisionError

\* C9: __init__ resolves the law once and in a fixed order: the properties
\* are stored first; a supplied law instance is adopted as it is and the
\* factory is never invoked; otherwise the factory is invoked exactly once
\* with the requested name and the object itself, whose stored properties
\* the parameter-supply method reads; the 'steel' check comes only after the
\* law is resolved.
C9_ResolutionOrder ==
    LET factory == EventsNamed("create_constitutive_law")
        supply == EventsNamed("supply")
        check == EventsNamed("steel-check")
        isLaw == args.constitutive_law.isinstance
        hasLaw == "_constitutive_law" \in DOMAIN self
    IN  /\ pc = "new" => (log = <<>> /\ self = <<>>)
        /\ pc # "new" =>
              /\ EventsNamed("Reinforcement.__init__") = {1}
              /\ self["_fyk"] = args.fyk /\ self["_Es"] = args.Es
              /\ self["_ftk"] = args.ftk /\ self["_epsuk"] = args.epsuk
              /\ self["_gamma_s"] = args.gamma_s
              /\ self["_density"] = args.density
        /\ pc = "stored" => (~hasLaw /\ factory = {} /\ check = {})
        /\ isLaw =>
              /\ factory = {} /\ supply = {}
              /\ hasLaw => self["_constitutive_law"] = args.constitutive_law.law
        /\ (~isLaw /\ pc \in {"resolved", "done", "raised"}) =>
              /\ factory = {2}
              /\ log[2].arg = args.constitutive_law.name
              /\ supply \subseteq {3}
              /\ \A i \in supply : log[i].arg = args.constitutive_law.name
              /\ hasLaw =>
                    /\ supply = {3}
                    /\ self["_constitutive_law"].id = "built"
                    /\ self["_constitutive_law"].kind = args.constitutive_law.name
                    /\ self["_constitutive_law"].kwargs["E"] = args.Es
        /\ \A i \in check :
              /\ i = Len(log)
              /\ hasLaw
              /\ \A j \in factory \cup supply : j < i
        /\ pc = "done" => Cardinality(check) = 1
        /\ pc = "resolved" => (hasLaw /\ check = {})

C9_Witness ==
    /\ pc = "done"
    /\ log = <<Event("Reinforcement.__init__", ""),
               Event("create_constitutive_law", "elasticplastic"),
               Event("supply", "elasticplastic"),
               Event("steel-check", "")>>
    /\ self["_constitutive_law"].kwargs["fy"] = RDiv(args.fyk, ExpectedGammaS)

\* C10: __elastic__ returns only E = Es; __elasticperfectlyplastic__ only
\* E = Es, fy = fyd() and eps_su = epsud(); __elasticplastic__ returns those
\* three and Eh = (ftd() - fyd()) / (epsud() - epsyd).
C10_SuppliedParameters ==
    LET g == ExpectedGammaS
        fydX == RDiv(args.fyk, g)
        ftdX == RDiv(args.ftk, g)
        epsudX == RDiv(args.epsuk, g)
        epsydX == RDiv(fydX, args.Es)
        d == ret.val
    IN  /\ ret.op = "__elastic__" =>
              /\ ret.exc = ""
              /\ DOMAIN d = {"E"}
              /\ d["E"] = args.Es
        /\ ret.op = "__elasticperfectlyplastic__" =>
              /\ ret.exc = ""
              /\ DOMAIN d = {"E", "fy", "eps_su"}
              /\ d["E"] = args.Es /\ d["fy"] = fydX /\ d["eps_su"] = epsudX
        /\ (ret.op = "__elasticplastic__" /\ epsudX # epsydX) =>
              /\ ret.exc = ""
              /\ DOMAIN d = {"E", "fy", "Eh", "eps_su"}
              /\ d["E"] = args.Es /\ d["fy"] = fydX /\ d["eps_su"] = epsudX
              /\ RMul(d["Eh"], RSub(epsudX, epsydX)) = RSub(ftdX, fydX)
              /\ (/\ args.fyk = <<500, 1>> /\ args.ftk = <<575, 1>>
                  /\ args.epsuk = <<3, 40>> /\ g = <<23, 20>>) => d["Eh"] = <<30000, 29>>

C10_Witness ==
    /\ ret.op = "__elasticplastic__"
    /\ ret.exc = ""
    /\ args.gamma_s = Some(<<23, 20>>)
    /\ ret.val["Eh"] = <<30000, 29>>

=============================================================================
